---- MODULE Spec2Model ----
(***************************************************************************)
(* Jobly backend: the Company and Job models (query construction and the   *)
(* create / findAll / get / update / remove operations), the               *)
(* sqlForPartialUpdate helper, and the ensureLoggedIn authorization        *)
(* middleware in front of the routes.                                      *)
(*                                                                         *)
(* Three specifications share the variables:                               *)
(*   SpecSql  - the clause builders applied to inputs drawn by Init;       *)
(*   Spec     - non-overlapping calls of the repository operations;        *)
(*   SpecAuth - one HTTP request at a time through authenticateJWT,        *)
(*              ensureLoggedIn and the route handler.                      *)
(***************************************************************************)
EXTENDS Integers, Sequences, FiniteSets, TLC

VARIABLES
  companies,   \* rows of table companies (a set; handles may repeat only by a race)
  jobs,        \* rows of table jobs (a set; ids are serial)
  nextId,      \* next value of the jobs.id serial
  pc,          \* per caller: position inside the repository operation
  call,        \* per caller: the operation called and its arguments
  ret,         \* per caller: what the call returned or threw
  sent,        \* per caller: the queries handed to db.query during the call
  pre,         \* the tables as they were when the current call began
  input,       \* clause builders: the arguments
  output,      \* clause builders: the result
  stage,       \* http: position of the request in the middleware chain
  req,         \* http: the request (method, originalUrl, params, credential)
  locals,      \* http: res.locals
  nextCalls,   \* http: the arguments ensureLoggedIn's continuation was called with
  handled      \* http: what the route handler did

vars == <<companies, jobs, nextId, pc, call, ret, sent, pre, input, output,
          stage, req, locals, nextCalls, handled>>

dbVars   == <<companies, jobs, nextId>>
repoVars == <<pc, call, ret, sent, pre>>
sqlVars  == <<input, output>>
httpVars == <<stage, req, locals, nextCalls, handled>>

-----------------------------------------------------------------------------
(* JavaScript values.  Every value is a record of the same shape so that   *)
(* values of different JavaScript types can be compared.  Text is a        *)
(* sequence of characters.                                                 *)

Undefined == [kind |-> "undefined", n |-> 0, s |-> <<>>]
IntV(i)   == [kind |-> "int", n |-> i, s |-> <<>>]
TextV(t)  == [kind |-> "text", n |-> 0, s |-> t]
BoolV(b)  == [kind |-> "bool", n |-> IF b THEN 1 ELSE 0, s |-> <<>>]

\* JavaScript truthiness, as tested by `if (name)`, `if (minEmployees)`.
Truthy(v) ==
  CASE v.kind = "undefined" -> FALSE
    [] v.kind = "int"       -> v.n # 0
    [] v.kind = "text"      -> v.s # <<>>
    [] v.kind = "bool"      -> v.n = 1
    [] v.kind = "object"    -> TRUE

\* The text "$n" of positional parameter n.
Ph(n) == "$" \o ToString(n)

\* The template literal `%${name}%`.
LikePattern(name) == TextV(<<"%">> \o name.s \o <<"%">>)

-----------------------------------------------------------------------------
(* Bounds and input domains.                                               *)

MaxData == 2     \* entries of an update payload given to the clause builder
MaxId == 2       \* job ids the serial hands out

Net == <<"n", "e", "t">>
Biz == <<"B", "i", "z">>
C1 == <<"c", "1">>
C2 == <<"c", "2">>
Desc == <<"d">>
Logo == <<"l">>
Dev == <<"D", "e", "v">>
Ops == <<"o", "p", "s">>

Handles == {TextV(C1), TextV(C2)}
Names   == {TextV(Net), TextV(Biz)}
Titles  == {TextV(Dev), TextV(Ops)}

NameFilters   == {Undefined, TextV(<<>>), TextV(Net)}
EmployeeCounts == {0, 1}
Salaries == {1}
Equities == {0}
NumberFilters == {Undefined} \cup {IntV(i) : i \in {0, 1, 2}}
FlagFilters   == {Undefined, BoolV(TRUE), BoolV(FALSE)}

CompanyFilters ==
  [name : NameFilters, minEmployees : NumberFilters,
   maxEmployees : NumberFilters]

JobFilters ==
  [title : NameFilters, minSalary : NumberFilters, hasEquity : FlagFilters]

-----------------------------------------------------------------------------
(* Filter clauses of Company.findAll and Job.findAll.  A query under       *)
(* construction is the list of predicate fragments appended to the base    *)
(* SELECT, and the bind values pushed so far.                              *)

Pred(kw, lhs, op, rhs) == [kw |-> kw, lhs |-> lhs, op |-> op, rhs |-> rhs]

EmptyQuery == [preds |-> <<>>, values |-> <<>>]

Push(q, pred, value) ==
  [preds |-> Append(q.preds, pred), values |-> Append(q.values, value)]

\* `if (values.length === 0)`: is the predicate being added the first one?
FirstPredicateAlways(values) == TRUE
FirstPredicate(values) == Len(values) = 0

\* if (name) { query += ` WHERE LOWER(name) LIKE LOWER($1)`; values.push(`%${name}%`) }
AddName(q, name) ==
  IF Truthy(name)
  THEN Push(q, Pred("WHERE", "LOWER(name)", "LIKE", "LOWER($1)"), LikePattern(name))
  ELSE q

\* if (minEmployees) { ... ` WHERE num_employees >= $2` / ` AND num_employees >= $n` }
AddMinEmployees(q, minEmployees) ==
  IF Truthy(minEmployees)
  THEN Push(q,
            IF FirstPredicate(q.values)
            THEN Pred("WHERE", "num_employees", ">=", "$2")
            ELSE Pred("AND", "num_employees", ">=", Ph(Len(q.values) + 1)),
            minEmployees)
  ELSE q

\* if (maxEmployees) { ... ` WHERE num_employees <=$2` / ` AND num_employees <= $n` }
AddMaxEmployees(q, maxEmployees) ==
  IF Truthy(maxEmployees)
  THEN Push(q,
            IF FirstPredicate(q.values)
            THEN Pred("WHERE", "num_employees", "<=", "$2")
            ELSE Pred("AND", "num_employees", "<=", Ph(Len(q.values) + 1)),
            maxEmployees)
  ELSE q

\* The query text and bind values Company.findAll hands to db.query.
CompanyFindAllQuery(filters) ==
  LET q == AddMaxEmployees(
             AddMinEmployees(AddName(EmptyQuery, filters.name), filters.minEmployees),
             filters.maxEmployees)
  IN [text |-> [stmt |-> "SELECT", table |-> "companies", preds |-> q.preds,
                orderBy |-> "name"],
      values |-> q.values]

\* if (title) { query += ` WHERE LOWER(title) LIKE LOWER($1)`; values.push(`%${title}%`) }
AddTitle(q, title) ==
  IF Truthy(title)
  THEN Push(q, Pred("WHERE", "LOWER(title)", "LIKE", "LOWER($1)"), LikePattern(title))
  ELSE q

\* if (minSalary !== undefined) { ... ` WHERE salary >= $1` / ` AND salary >= $n` }
AddMinSalary(q, minSalary) ==
  IF minSalary # Undefined
  THEN Push(q,
            IF FirstPredicate(q.values)
            THEN Pred("WHERE", "salary", ">=", "$1")
            ELSE Pred("AND", "salary", ">=", Ph(Len(q.values) + 1)),
            minSalary)
  ELSE q

\* if (hasEquity !== undefined) { ... ` WHERE equity > 0` / ` AND equity > 0`;
\*                                values.push(hasEquity) }
AddHasEquity(q, hasEquity) ==
  IF hasEquity # Undefined
  THEN Push(q,
            IF FirstPredicate(q.values)
            THEN Pred("WHERE", "equity", ">", "0")
            ELSE Pred("AND", "equity", ">", "0"),
            hasEquity)
  ELSE q

\* The query text and bind values Job.findAll hands to db.query.
JobFindAllQuery(filters) ==
  LET q == AddHasEquity(
             AddMinSalary(AddTitle(EmptyQuery, filters.title), filters.minSalary),
             filters.hasEquity)
  IN [text |-> [stmt |-> "SELECT", table |-> "jobs", preds |-> q.preds,
                orderBy |-> "title"],
      values |-> q.values]

\* The parameter number a predicate's right-hand side refers to, 0 when it
\* is a literal.  n ranges over the parameter numbers the text can hold.
PlaceholderOf(rhs, maxN) ==
  IF \E n \in 1..maxN : rhs = Ph(n) \/ rhs = "LOWER(" \o Ph(n) \o ")"
  THEN CHOOSE n \in 1..maxN : rhs = Ph(n) \/ rhs = "LOWER(" \o Ph(n) \o ")"
  ELSE 0

-----------------------------------------------------------------------------
(* sqlForPartialUpdate, and the UPDATE statements built from it.  The      *)
(* payload is the object's entries in iteration order: a sequence of       *)
(* [key, val] with distinct keys.                                          *)

NoDataError == "BadRequestError: No data"

\* `jsToSql[colName] || colName`
ColumnFor(jsToSql, colName) ==
  IF colName \in DOMAIN jsToSql /\ jsToSql[colName] # ""
  THEN jsToSql[colName]
  ELSE colName

\* `"${column}"=$${idx + 1}`
AssignmentZeroBased(column, idx) == "\"" \o column \o "\"=" \o Ph(idx)
Assignment(column, idx) == "\"" \o column \o "\"=" \o Ph(idx + 1)

\* cols.join(", "): the pieces of the joined text, separators included.
RECURSIVE Join(_, _)
Join(cols, sep) ==
  IF Len(cols) = 0 THEN <<>>
  ELSE IF Len(cols) = 1 THEN cols
  ELSE <<Head(cols), sep>> \o Join(Tail(cols), sep)

\* `if (keys.length === 0) throw new BadRequestError("No data")`
NoDataNever(keys) == FALSE
NoData(keys) == Len(keys) = 0

sqlForPartialUpdate(dataToUpdate, jsToSql) ==
  LET keys == [i \in 1..Len(dataToUpdate) |-> dataToUpdate[i].key]
      cols == [i \in 1..Len(keys) |-> Assignment(ColumnFor(jsToSql, keys[i]), i - 1)]
  IN IF NoData(keys)
     THEN [threw |-> NoDataError, setCols |-> <<>>, values |-> <<>>]
     ELSE [threw |-> "",
           setCols |-> Join(cols, ", "),
           values |-> [i \in 1..Len(dataToUpdate) |-> dataToUpdate[i].val]]

CompanyJsToSql == [numEmployees |-> "num_employees", logoUrl |-> "logo_url"]
JobJsToSql == <<>>

\* `"$" + (values.length + 1)`
KeyVarIdxLast(values) == Ph(Len(values))
KeyVarIdx(values) == Ph(Len(values) + 1)

\* What Company.update / Job.update hand to db.query, or the error
\* sqlForPartialUpdate threw before anything was handed over.
UpdateQuery(table, keyColumn, jsToSql, key, data) ==
  LET built == sqlForPartialUpdate(data, jsToSql)
  IN IF built.threw # ""
     THEN [threw |-> built.threw]
     ELSE [threw |-> "",
           text |-> [stmt |-> "UPDATE", table |-> table, setCols |-> built.setCols,
                     where |-> Pred("WHERE", keyColumn, "=", KeyVarIdx(built.values))],
           values |-> Append(built.values, key)]

CompanyUpdateQuery(handle, data) ==
  UpdateQuery("companies", "handle", CompanyJsToSql, handle, data)

JobUpdateQuery(id, data) ==
  UpdateQuery("jobs", "id", JobJsToSql, id, data)

-----------------------------------------------------------------------------
(* Update payloads.                                                        *)

Entry(k, v) == [key |-> k, val |-> v]

CompanyEntries ==
  {Entry("name", v) : v \in Names}
    \cup {Entry("numEmployees", IntV(i)) : i \in EmployeeCounts}
    \cup {Entry("description", TextV(Desc)), Entry("logoUrl", TextV(Logo))}

JobEntries ==
  {Entry("title", v) : v \in Titles}
    \cup {Entry("salary", IntV(i)) : i \in Salaries}
    \cup {Entry("equity", IntV(i)) : i \in Equities}

\* The payloads of at most `len` entries over `entries`, keys distinct.
RECURSIVE Payloads(_, _)
Payloads(entries, len) ==
  IF len = 0 THEN {<<>>}
  ELSE LET shorter == Payloads(entries, len - 1)
           longer  == {de \in shorter \X entries :
                         /\ Len(de[1]) = len - 1
                         /\ \A i \in 1..Len(de[1]) : de[1][i].key # de[2].key}
       IN shorter \cup {Append(de[1], de[2]) : de \in longer}

-----------------------------------------------------------------------------
(* The persistence executor behind db.query: it is given a query text and  *)
(* the ordered bind values and returns rows or fails.  The statement must  *)
(* refer to exactly the parameters $1..$n it is given n values for.        *)
(* Foreign keys and cascades belong to the storage schema and are not      *)
(* modelled.                                                               *)

UpperCase == <<"A", "B", "C", "D", "E", "F", "G", "H", "I", "J", "K", "L", "M",
               "N", "O", "P", "Q", "R", "S", "T", "U", "V", "W", "X", "Y", "Z">>
LowerCase == <<"a", "b", "c", "d", "e", "f", "g", "h", "i", "j", "k", "l", "m",
               "n", "o", "p", "q", "r", "s", "t", "u", "v", "w", "x", "y", "z">>
Digits    == <<"0", "1", "2", "3", "4", "5", "6", "7", "8", "9">>
CharOrder == <<"%">> \o Digits \o UpperCase \o <<"_">> \o LowerCase

\* SQL LOWER()
Lower(c) ==
  IF \E i \in 1..Len(UpperCase) : UpperCase[i] = c
  THEN LowerCase[CHOOSE i \in 1..Len(UpperCase) : UpperCase[i] = c]
  ELSE c
LowerText(t) == [i \in 1..Len(t) |-> Lower(t[i])]

\* SQL LIKE: % matches any run of characters, _ any one character.
RECURSIVE LikeMatch(_, _)
LikeMatch(t, pattern) ==
  IF pattern = <<>> THEN t = <<>>
  ELSE IF Head(pattern) = "%"
       THEN LikeMatch(t, Tail(pattern)) \/ (t # <<>> /\ LikeMatch(Tail(t), pattern))
       ELSE /\ t # <<>>
            /\ (Head(pattern) = "_" \/ Head(pattern) = Head(t))
            /\ LikeMatch(Tail(t), Tail(pattern))

Rank(c) == CHOOSE i \in 1..Len(CharOrder) : CharOrder[i] = c

\* ORDER BY on text: character by character.
RECURSIVE TextLeq(_, _)
TextLeq(a, b) ==
  IF a = <<>> THEN TRUE
  ELSE IF b = <<>> THEN FALSE
  ELSE IF Head(a) = Head(b) THEN TextLeq(Tail(a), Tail(b))
  ELSE Rank(Head(a)) < Rank(Head(b))

\* The orders in which ORDER BY <field> may return `rows`.
OrderedBy(rows, field) ==
  {s \in [1..Cardinality(rows) -> rows] :
     /\ \A r \in rows : \E i \in DOMAIN s : s[i] = r
     /\ \A i, j \in DOMAIN s : i < j => TextLeq(s[i][field].s, s[j][field].s)}

Compare(op, a, b) ==
  CASE op = ">=" -> a >= b
    [] op = "<=" -> a <= b
    [] op = ">"  -> a > b
    [] op = "="  -> a = b

\* Whether row r satisfies one predicate of a WHERE clause.
Holds(r, pred, values) ==
  LET k == PlaceholderOf(pred.rhs, Len(values))
      v == IF k = 0 THEN IntV(0) ELSE values[k]
  IN CASE pred.lhs = "LOWER(name)"    -> LikeMatch(LowerText(r.name.s), LowerText(v.s))
       [] pred.lhs = "LOWER(title)"   -> LikeMatch(LowerText(r.title.s), LowerText(v.s))
       [] pred.lhs = "num_employees"  -> Compare(pred.op, r.numEmployees.n, v.n)
       [] pred.lhs = "salary"         -> Compare(pred.op, r.salary.n, v.n)
       [] pred.lhs = "equity"         -> Compare(pred.op, r.equity.n, v.n)
       [] pred.lhs = "handle"         -> r.handle = v
       [] pred.lhs = "title"          -> r.title = v
       [] pred.lhs = "company_handle" -> r.companyHandle = v
       [] pred.lhs = "id"             -> v.kind = "int" /\ r.id = v.n

DbError == "DbError"

\* SELECT ... FROM <table> [WHERE ...]: the matching rows, or an error when
\* the parameters the text refers to are not exactly the values given.
ExecSelect(rows, q) ==
  LET n     == Len(q.values)
      preds == q.text.preds
      refs  == {PlaceholderOf(preds[i].rhs, n + Len(preds) + 1) : i \in DOMAIN preds} \ {0}
  IN IF refs # 1..n
     THEN [error |-> DbError, rows |-> {}]
     ELSE [error |-> "",
           rows |-> {r \in rows : \A i \in DOMAIN preds : Holds(r, preds[i], q.values)}]

CompanyColumns == {"handle", "name", "description", "num_employees", "logo_url"}
JobColumns     == {"id", "title", "salary", "equity", "company_handle"}

SetColumn(r, col, v) ==
  CASE col = "handle"         -> [r EXCEPT !.handle = v]
    [] col = "name"           -> [r EXCEPT !.name = v]
    [] col = "description"    -> [r EXCEPT !.description = v]
    [] col = "num_employees"  -> [r EXCEPT !.numEmployees = v]
    [] col = "logo_url"       -> [r EXCEPT !.logoUrl = v]
    [] col = "id"             -> [r EXCEPT !.id = v.n]
    [] col = "title"          -> [r EXCEPT !.title = v]
    [] col = "salary"         -> [r EXCEPT !.salary = v]
    [] col = "equity"         -> [r EXCEPT !.equity = v]
    [] col = "company_handle" -> [r EXCEPT !.companyHandle = v]

\* One piece `"column"=$k` of a SET clause, read back.
ParseAssignment(a, columns, maxN) ==
  LET fits(ck) == a = "\"" \o ck[1] \o "\"=" \o ("$" \o ToString(ck[2]))
  IN IF \E ck \in columns \X (1..maxN) : fits(ck)
     THEN LET ck == CHOOSE ck \in columns \X (1..maxN) : fits(ck)
          IN [col |-> ck[1], k |-> ck[2]]
     ELSE [col |-> "", k |-> 0]

RECURSIVE ApplyAssignments(_, _, _)
ApplyAssignments(r, assigns, values) ==
  IF assigns = <<>> THEN r
  ELSE ApplyAssignments(SetColumn(r, Head(assigns).col, values[Head(assigns).k]),
                        Tail(assigns), values)

\* UPDATE <table> SET ... WHERE <key> = $k RETURNING ...: the table after
\* the statement and the rows it returns.
ExecUpdate(rows, columns, q) ==
  LET n       == Len(q.values)
      setCols == q.text.setCols
      assigns == [i \in 1..((Len(setCols) + 1) \div 2) |->
                    ParseAssignment(setCols[2 * i - 1], columns, n + 1)]
      whereK  == PlaceholderOf(q.text.where.rhs, n + 1)
      refs    == {assigns[i].k : i \in DOMAIN assigns} \cup {whereK}
      matched == {r \in rows : Holds(r, q.text.where, q.values)}
      updated == {ApplyAssignments(r, assigns, q.values) : r \in matched}
  IN IF refs # 1..n \/ \E i \in DOMAIN assigns : assigns[i].col = ""
     THEN [error |-> DbError, rows |-> {}, table |-> rows]
     ELSE [error |-> "", rows |-> updated, table |-> (rows \ matched) \cup updated]

StaticQuery(stmt, table, keyColumn, values) ==
  [text |-> [stmt |-> stmt, table |-> table,
             preds |-> <<Pred("WHERE", keyColumn, "=", "$1")>>],
   values |-> values]

InsertQuery(table, values) ==
  [text |-> [stmt |-> "INSERT", table |-> table, preds |-> <<>>], values |-> values]

-----------------------------------------------------------------------------
(* Repository calls.  A call runs from its invocation up to its first      *)
(* db.query; each later step is the executor answering the awaited query   *)
(* and the caller running on to the next await or to its return or throw.  *)

Procs == {1, 2}

NoCall == [op |-> ""]
NoRet  == [threw |-> "", value |-> Undefined]
NoPre  == [companies |-> {}, jobs |-> {}]

Throw(e) == [threw |-> e, value |-> Undefined]
Value(v) == [threw |-> "", value |-> v]

DuplicateCompany == "BadRequestError: Duplicate company"
DuplicateJob     == "BadRequestError: Duplicate job"
NoCompany        == "NotFoundError: No company"
NoJob            == "NotFoundError: No job"

CompanyData ==
  [handle : Handles, name : Names, description : {TextV(Desc)},
   numEmployees : {IntV(i) : i \in EmployeeCounts}, logoUrl : {TextV(Logo)}]

JobData ==
  [title : Titles, salary : {IntV(i) : i \in Salaries},
   equity : {IntV(i) : i \in Equities}, companyHandle : Handles]

JobIds == {IntV(i) : i \in 1..MaxId}

\* Substring criteria: part of "net" and of "Dev" in the other case, and a
\* character LIKE reads as a wildcard.
ET == <<"E", "T">>
EV == <<"E", "V">>
Underscore == <<"_">>

\* The filters of a findAll call on the tables: each criterion absent or given.
RepoCompanyFilters ==
  [name : {Undefined, TextV(ET), TextV(Underscore)},
   minEmployees : {Undefined, IntV(1), IntV(2)}, maxEmployees : {Undefined, IntV(1)}]
RepoJobFilters ==
  [title : {Undefined, TextV(EV)}, minSalary : {Undefined, IntV(1)},
   hasEquity : {Undefined, BoolV(TRUE)}]

\* The payloads of an update call on the tables: empty, every single entry,
\* and one payload of two entries.
RepoCompanyPayloads ==
  {<<>>} \cup {<<e>> : e \in CompanyEntries}
    \cup {<<Entry("name", TextV(Biz)), Entry("numEmployees", IntV(1))>>}
RepoJobPayloads ==
  {<<>>} \cup {<<e>> : e \in JobEntries}
    \cup {<<Entry("title", TextV(Ops)), Entry("salary", IntV(1))>>}

\* Calls do not overlap: a call begins when no other caller is inside one.
Solo(p) == pc[p] = "idle" /\ \A q \in Procs \ {p} : pc[q] = "idle"

Begin(p, c, at, q) ==
  /\ pc' = [pc EXCEPT ![p] = at]
  /\ call' = [call EXCEPT ![p] = c]
  /\ ret' = [ret EXCEPT ![p] = NoRet]
  /\ sent' = [sent EXCEPT ![p] = <<q>>]
  /\ pre' = [companies |-> companies, jobs |-> jobs]

\* The call ends before any query was handed over.
BeginThrow(p, c, e) ==
  /\ pc' = [pc EXCEPT ![p] = "done"]
  /\ call' = [call EXCEPT ![p] = c]
  /\ ret' = [ret EXCEPT ![p] = Throw(e)]
  /\ sent' = [sent EXCEPT ![p] = <<>>]
  /\ pre' = [companies |-> companies, jobs |-> jobs]

Finish(p, r) ==
  /\ pc' = [pc EXCEPT ![p] = "done"]
  /\ ret' = [ret EXCEPT ![p] = r]
  /\ UNCHANGED <<call, sent, pre>>

Await(p, at, q) ==
  /\ pc' = [pc EXCEPT ![p] = at]
  /\ sent' = [sent EXCEPT ![p] = Append(@, q)]
  /\ UNCHANGED <<call, ret, pre>>

\* `if (duplicateCheck.rows[0])`
DuplicateFoundNever(rows) == FALSE
DuplicateFound(rows) == rows # {}

\* `if (!company)`, `if (!job)`
NoRowNever(rows) == FALSE
NoRow(rows) == rows = {}

\* result.rows[0]
FirstRows(rows) == IF rows = {} THEN {Undefined} ELSE rows

\* ---- Company ----

CompanyCreateBegin(p) ==
  /\ \E data \in CompanyData :
       Begin(p, [op |-> "Company.create", data |-> data], "Company.create:check",
             StaticQuery("SELECT", "companies", "handle", <<data.handle>>))
  /\ UNCHANGED <<dbVars, sqlVars, httpVars>>

CompanyCreateCall(p) == Solo(p) /\ CompanyCreateBegin(p)

CompanyCreateCheck(p) ==
  /\ pc[p] = "Company.create:check"
  /\ LET data == call[p].data
         duplicateCheck == ExecSelect(companies, sent[p][1])
     IN IF DuplicateFound(duplicateCheck.rows)
        THEN Finish(p, Throw(DuplicateCompany))
        ELSE Await(p, "Company.create:insert",
                   InsertQuery("companies",
                               <<data.handle, data.name, data.description,
                                 data.numEmployees, data.logoUrl>>))
  /\ UNCHANGED <<dbVars, sqlVars, httpVars>>

CompanyCreateInsert(p) ==
  /\ pc[p] = "Company.create:insert"
  /\ LET v == sent[p][2].values
         row == [handle |-> v[1], name |-> v[2], description |-> v[3],
                 numEmployees |-> v[4], logoUrl |-> v[5]]
     IN /\ companies' = companies \cup {row}
        /\ Finish(p, Value(row))
  /\ UNCHANGED <<jobs, nextId, sqlVars, httpVars>>

CompanyFindAllCall(p) ==
  /\ Solo(p)
  /\ \E filters \in RepoCompanyFilters :
       Begin(p, [op |-> "Company.findAll", filters |-> filters], "Company.findAll",
             CompanyFindAllQuery(filters))
  /\ UNCHANGED <<dbVars, sqlVars, httpVars>>

CompanyFindAll(p) ==
  /\ pc[p] = "Company.findAll"
  /\ LET companiesRes == ExecSelect(companies, sent[p][1])
     IN IF companiesRes.error # ""
        THEN Finish(p, Throw(companiesRes.error))
        ELSE \E rows \in OrderedBy(companiesRes.rows, sent[p][1].text.orderBy) :
               Finish(p, Value(rows))
  /\ UNCHANGED <<dbVars, sqlVars, httpVars>>

CompanyGetCall(p) ==
  /\ Solo(p)
  /\ \E handle \in Handles :
       Begin(p, [op |-> "Company.get", key |-> handle], "Company.get",
             StaticQuery("SELECT", "companies", "handle", <<handle>>))
  /\ UNCHANGED <<dbVars, sqlVars, httpVars>>

CompanyGet(p) ==
  /\ pc[p] = "Company.get"
  /\ LET companyRes == ExecSelect(companies, sent[p][1])
     IN IF NoRow(companyRes.rows)
        THEN Finish(p, Throw(NoCompany))
        ELSE \E company \in FirstRows(companyRes.rows) :
               /\ pc' = [pc EXCEPT ![p] = "Company.get:jobs"]
               /\ ret' = [ret EXCEPT ![p] = Value(company)]
               /\ sent' = [sent EXCEPT ![p] =
                             Append(@, StaticQuery("SELECT", "jobs", "company_handle",
                                                   <<call[p].key>>))]
               /\ UNCHANGED <<call, pre>>
  /\ UNCHANGED <<dbVars, sqlVars, httpVars>>

CompanyGetJobs(p) ==
  /\ pc[p] = "Company.get:jobs"
  /\ LET jobsRes == ExecSelect(jobs, sent[p][2])
         rows == {[id |-> j.id, title |-> j.title, salary |-> j.salary,
                   equity |-> j.equity] : j \in jobsRes.rows}
     IN Finish(p, Value([company |-> ret[p].value, jobs |-> rows]))
  /\ UNCHANGED <<dbVars, sqlVars, httpVars>>

CompanyUpdateCall(p) ==
  /\ Solo(p)
  /\ \E handle \in Handles, data \in RepoCompanyPayloads :
       LET c == [op |-> "Company.update", key |-> handle, data |-> data]
           q == CompanyUpdateQuery(handle, data)
       IN IF q.threw # ""
          THEN BeginThrow(p, c, q.threw)
          ELSE Begin(p, c, "Company.update", [text |-> q.text, values |-> q.values])
  /\ UNCHANGED <<dbVars, sqlVars, httpVars>>

CompanyUpdate(p) ==
  /\ pc[p] = "Company.update"
  /\ LET result == ExecUpdate(companies, CompanyColumns, sent[p][1])
     IN /\ companies' = result.table
        /\ IF result.error # "" THEN Finish(p, Throw(result.error))
           ELSE IF NoRow(result.rows) THEN Finish(p, Throw(NoCompany))
           ELSE \E company \in FirstRows(result.rows) : Finish(p, Value(company))
  /\ UNCHANGED <<jobs, nextId, sqlVars, httpVars>>

CompanyRemoveCall(p) ==
  /\ Solo(p)
  /\ \E handle \in Handles :
       Begin(p, [op |-> "Company.remove", key |-> handle], "Company.remove",
             StaticQuery("DELETE", "companies", "handle", <<handle>>))
  /\ UNCHANGED <<dbVars, sqlVars, httpVars>>

CompanyRemove(p) ==
  /\ pc[p] = "Company.remove"
  /\ LET result == ExecSelect(companies, sent[p][1])
     IN /\ companies' = companies \ result.rows
        /\ IF NoRow(result.rows) THEN Finish(p, Throw(NoCompany))
           ELSE Finish(p, Value(Undefined))
  /\ UNCHANGED <<jobs, nextId, sqlVars, httpVars>>

\* ---- Job ----

JobDuplicateQuery(title, companyHandle) ==
  [text |-> [stmt |-> "SELECT", table |-> "jobs",
             preds |-> <<Pred("WHERE", "title", "=", "$1"),
                         Pred("AND", "company_handle", "=", "$2")>>],
   values |-> <<title, companyHandle>>]

JobCreateBegin(p) ==
  /\ nextId <= MaxId
  /\ \E data \in JobData :
       Begin(p, [op |-> "Job.create", data |-> data], "Job.create:check",
             JobDuplicateQuery(data.title, data.companyHandle))
  /\ UNCHANGED <<dbVars, sqlVars, httpVars>>

JobCreateCall(p) == Solo(p) /\ JobCreateBegin(p)

JobCreateCheck(p) ==
  /\ pc[p] = "Job.create:check"
  /\ LET data == call[p].data
         duplicateCheck == ExecSelect(jobs, sent[p][1])
     IN IF DuplicateFound(duplicateCheck.rows)
        THEN Finish(p, Throw(DuplicateJob))
        ELSE Await(p, "Job.create:insert",
                   InsertQuery("jobs", <<data.title, data.salary, data.equity,
                                         data.companyHandle>>))
  /\ UNCHANGED <<dbVars, sqlVars, httpVars>>

\* The INSERT under a unique constraint on (title, company_handle).
JobCreateInsertUnique(p) ==
  /\ pc[p] = "Job.create:insert"
  /\ LET v == sent[p][2].values
         row == [id |-> nextId, title |-> v[1], salary |-> v[2], equity |-> v[3],
                 companyHandle |-> v[4]]
     IN IF \E j \in jobs : j.title = v[1] /\ j.companyHandle = v[4]
        THEN jobs' = jobs /\ nextId' = nextId /\ Finish(p, Throw(DbError))
        ELSE jobs' = jobs \cup {row} /\ nextId' = nextId + 1 /\ Finish(p, Value(row))
  /\ UNCHANGED <<companies, sqlVars, httpVars>>

JobCreateInsert(p) ==
  /\ pc[p] = "Job.create:insert"
  /\ LET v == sent[p][2].values
         row == [id |-> nextId, title |-> v[1], salary |-> v[2], equity |-> v[3],
                 companyHandle |-> v[4]]
     IN /\ jobs' = jobs \cup {row}
        /\ nextId' = nextId + 1
        /\ Finish(p, Value(row))
  /\ UNCHANGED <<companies, sqlVars, httpVars>>

JobFindAllCall(p) ==
  /\ Solo(p)
  /\ \E filters \in RepoJobFilters :
       Begin(p, [op |-> "Job.findAll", filters |-> filters], "Job.findAll",
             JobFindAllQuery(filters))
  /\ UNCHANGED <<dbVars, sqlVars, httpVars>>

JobFindAll(p) ==
  /\ pc[p] = "Job.findAll"
  /\ LET jobsRes == ExecSelect(jobs, sent[p][1])
     IN IF jobsRes.error # ""
        THEN Finish(p, Throw(jobsRes.error))
        ELSE \E rows \in OrderedBy(jobsRes.rows, sent[p][1].text.orderBy) :
               Finish(p, Value(rows))
  /\ UNCHANGED <<dbVars, sqlVars, httpVars>>

JobGetCall(p) ==
  /\ Solo(p)
  /\ \E id \in JobIds :
       Begin(p, [op |-> "Job.get", key |-> id], "Job.get",
             StaticQuery("SELECT", "jobs", "id", <<id>>))
  /\ UNCHANGED <<dbVars, sqlVars, httpVars>>

JobGet(p) ==
  /\ pc[p] = "Job.get"
  /\ LET jobRes == ExecSelect(jobs, sent[p][1])
     IN IF NoRow(jobRes.rows)
        THEN Finish(p, Throw(NoJob))
        ELSE \E job \in FirstRows(jobRes.rows) : Finish(p, Value(job))
  /\ UNCHANGED <<dbVars, sqlVars, httpVars>>

JobUpdateCall(p) ==
  /\ Solo(p)
  /\ \E id \in JobIds, data \in RepoJobPayloads :
       LET c == [op |-> "Job.update", key |-> id, data |-> data]
           q == JobUpdateQuery(id, data)
       IN IF q.threw # ""
          THEN BeginThrow(p, c, q.threw)
          ELSE Begin(p, c, "Job.update", [text |-> q.text, values |-> q.values])
  /\ UNCHANGED <<dbVars, sqlVars, httpVars>>

JobUpdate(p) ==
  /\ pc[p] = "Job.update"
  /\ LET result == ExecUpdate(jobs, JobColumns, sent[p][1])
     IN /\ jobs' = result.table
        /\ IF result.error # "" THEN Finish(p, Throw(result.error))
           ELSE IF NoRow(result.rows) THEN Finish(p, Throw(NoJob))
           ELSE \E job \in FirstRows(result.rows) : Finish(p, Value(job))
  /\ UNCHANGED <<companies, nextId, sqlVars, httpVars>>

JobRemoveCall(p) ==
  /\ Solo(p)
  /\ \E id \in JobIds :
       Begin(p, [op |-> "Job.remove", key |-> id], "Job.remove",
             StaticQuery("DELETE", "jobs", "id", <<id>>))
  /\ UNCHANGED <<dbVars, sqlVars, httpVars>>

JobRemove(p) ==
  /\ pc[p] = "Job.remove"
  /\ LET result == ExecSelect(jobs, sent[p][1])
     IN /\ jobs' = jobs \ result.rows
        /\ IF NoRow(result.rows) THEN Finish(p, Throw(NoJob))
           ELSE Finish(p, Value(Undefined))
  /\ UNCHANGED <<companies, nextId, sqlVars, httpVars>>

\* The caller has its result; it may call again.
Return(p) ==
  /\ pc[p] = "done"
  /\ pc' = [pc EXCEPT ![p] = "idle"]
  /\ call' = [call EXCEPT ![p] = NoCall]
  /\ ret' = [ret EXCEPT ![p] = NoRet]
  /\ sent' = [sent EXCEPT ![p] = <<>>]
  /\ pre' = NoPre
  /\ UNCHANGED <<dbVars, sqlVars, httpVars>>

-----------------------------------------------------------------------------
(* Initial states.                                                         *)

NoInput == [fn |-> ""]
NoOutput == [threw |-> ""]
NoReq ==
  [via |-> "", method |-> "", router |-> "", originalUrl |-> Undefined,
   params |-> Undefined, authorization |-> Undefined]
NoLocals == [user |-> Undefined]

InitDb   == companies = {} /\ jobs = {} /\ nextId = 1
InitRepo ==
  /\ pc = [p \in Procs |-> "idle"]
  /\ call = [p \in Procs |-> NoCall]
  /\ ret = [p \in Procs |-> NoRet]
  /\ sent = [p \in Procs |-> <<>>]
  /\ pre = NoPre
InitSqlIdle  == input = NoInput /\ output = NoOutput
InitHttpIdle ==
  /\ stage = "idle" /\ req = NoReq /\ locals = NoLocals
  /\ nextCalls = <<>> /\ handled = ""

Init == InitDb /\ InitRepo /\ InitSqlIdle /\ InitHttpIdle

\* In Spec one caller makes all the calls, one after the other.
Callers == {1}

Next ==
  \E p \in Callers :
    \/ CompanyCreateCall(p) \/ CompanyCreateCheck(p) \/ CompanyCreateInsert(p)
    \/ CompanyFindAllCall(p) \/ CompanyFindAll(p)
    \/ CompanyGetCall(p) \/ CompanyGet(p) \/ CompanyGetJobs(p)
    \/ CompanyUpdateCall(p) \/ CompanyUpdate(p)
    \/ CompanyRemoveCall(p) \/ CompanyRemove(p)
    \/ JobCreateCall(p) \/ JobCreateCheck(p) \/ JobCreateInsert(p)
    \/ JobFindAllCall(p) \/ JobFindAll(p)
    \/ JobGetCall(p) \/ JobGet(p)
    \/ JobUpdateCall(p) \/ JobUpdate(p)
    \/ JobRemoveCall(p) \/ JobRemove(p)
    \/ Return(p)

Spec == Init /\ [][Next]_vars

-----------------------------------------------------------------------------
(* SpecRace: two callers each make one create call, and the calls overlap: *)
(* every await is a point where the other caller's steps may run.          *)

CompanyCreateOverlapping(p) == pc[p] = "idle" /\ CompanyCreateBegin(p)
JobCreateOverlapping(p)     == pc[p] = "idle" /\ JobCreateBegin(p)

NextRace ==
  \E p \in Procs :
    \/ CompanyCreateOverlapping(p) \/ CompanyCreateCheck(p) \/ CompanyCreateInsert(p)
    \/ JobCreateOverlapping(p) \/ JobCreateCheck(p) \/ JobCreateInsert(p)

SpecRace == Init /\ [][NextRace]_vars

-----------------------------------------------------------------------------
(* SpecSql: the clause builders on their own.  Init draws the arguments,   *)
(* one action per builder applies it.                                      *)

\* The payload and translation table of the helper's own tests.
First == <<"f">>
TestEntries == {Entry("firstName", TextV(First)), Entry("age", IntV(32))}
TestJsToSql == {<<>>, [firstName |-> "first_name"]}

InitSql ==
  /\ InitDb /\ InitRepo /\ InitHttpIdle
  /\ output = NoOutput
  /\ \/ \E f \in CompanyFilters : input = [fn |-> "Company.findAll", filters |-> f]
     \/ \E f \in JobFilters : input = [fn |-> "Job.findAll", filters |-> f]
     \/ \E h \in Handles, d \in Payloads(CompanyEntries, MaxData) :
          input = [fn |-> "Company.update", key |-> h, data |-> d,
                   jsToSql |-> CompanyJsToSql]
     \/ \E id \in JobIds, d \in Payloads(JobEntries, MaxData) :
          input = [fn |-> "Job.update", key |-> id, data |-> d, jsToSql |-> JobJsToSql]
     \/ \E t \in TestJsToSql, d \in Payloads(TestEntries, MaxData) :
          input = [fn |-> "sqlForPartialUpdate", key |-> Undefined, data |-> d,
                   jsToSql |-> t]

Built(fn) == input.fn = fn /\ output = NoOutput /\ UNCHANGED <<dbVars, repoVars, httpVars, input>>

BuildCompanyFindAll ==
  /\ Built("Company.findAll")
  /\ output' = [threw |-> "", query |-> CompanyFindAllQuery(input.filters)]

BuildJobFindAll ==
  /\ Built("Job.findAll")
  /\ output' = [threw |-> "", query |-> JobFindAllQuery(input.filters)]

BuildCompanyUpdate ==
  /\ Built("Company.update")
  /\ output' = CompanyUpdateQuery(input.key, input.data)

BuildJobUpdate ==
  /\ Built("Job.update")
  /\ output' = JobUpdateQuery(input.key, input.data)

BuildPartialUpdate ==
  /\ Built("sqlForPartialUpdate")
  /\ output' = sqlForPartialUpdate(input.data, input.jsToSql)

NextSql ==
  \/ BuildCompanyFindAll \/ BuildJobFindAll
  \/ BuildCompanyUpdate \/ BuildJobUpdate \/ BuildPartialUpdate

SpecSql == InitSql /\ [][NextSql]_vars

-----------------------------------------------------------------------------
(* The HTTP layer: authenticateJWT, ensureLoggedIn and the route handlers. *)

U1    == <<"u", "1">>
U2    == <<"u", "2">>
Admin == <<"a", "d", "m", "i", "n">>
Test  == <<"t", "e", "s", "t">>

\* A token payload / res.locals.user.
User(username, isAdmin) == [kind |-> "object", username |-> TextV(username), isAdmin |-> isAdmin]

SECRET_KEY == "SECRET_KEY"

\* jwt.sign(payload, key), and the Authorization header that carries it.
Sign(payload, key) == [payload |-> payload, key |-> key]
Header(scheme, token) == [kind |-> "object", scheme |-> scheme, token |-> token]

\* authHeader.replace(/^[Bb]earer /, "").trim()
StripBearer(h) == IF h.scheme \in {"Bearer ", "bearer "} THEN [h EXCEPT !.scheme = ""] ELSE h

\* jwt.verify(token, key): the payload, or a throw when the text is not a
\* token or was signed with another key.
JwtVerify(t, key) ==
  IF t.scheme = "" /\ t.token.key = key THEN Value(t.token.payload)
  ELSE Throw("JsonWebTokenError")

\* authenticateJWT: res.locals after the call (next() is called either way).
authenticateJWT(r, l) ==
  IF ~Truthy(r.authorization) THEN l
  ELSE LET verified == JwtVerify(StripBearer(r.authorization), SECRET_KEY)
       IN IF verified.threw = "" THEN [l EXCEPT !.user = verified.value] ELSE l

\* String.prototype.startsWith
startsWith(s, prefix) == Len(prefix) <= Len(s) /\ SubSeq(s, 1, Len(prefix)) = prefix

\* companyActionRoutes.concat(userActionRoutes)
AdminActionRoutes ==
  << [method |-> "POST",   path |-> <<"/">>],
     [method |-> "PATCH",  path |-> <<"/", ":", "h", "a", "n", "d", "l", "e">>],
     [method |-> "DELETE", path |-> <<"/", ":", "h", "a", "n", "d", "l", "e">>],
     [method |-> "POST",   path |-> <<"/", "u", "s", "e", "r">>],
     [method |-> "GET",    path |-> <<"/", "u", "s", "e", "r", "s">>],
     [method |-> "GET",    path |-> <<"/", ":", "u", "s", "e", "r", "n", "a", "m", "e">>],
     [method |-> "PATCH",  path |-> <<"/", ":", "u", "s", "e", "r", "n", "a", "m", "e">>],
     [method |-> "DELETE", path |-> <<"/", ":", "u", "s", "e", "r", "n", "a", "m", "e">>] >>

\* isAdminActionRoute: `.some(route => route.method === req.method &&
\* req.originalUrl.startsWith(route.path))`; reading startsWith of an
\* undefined originalUrl throws.
isAdminActionRoute(r) ==
  LET sameMethod == {i \in DOMAIN AdminActionRoutes : AdminActionRoutes[i].method = r.method}
  IN IF sameMethod # {} /\ r.originalUrl = Undefined THEN Throw("TypeError")
     ELSE Value(BoolV(\E i \in sameMethod :
                        startsWith(r.originalUrl.s, AdminActionRoutes[i].path)))

\* ensureAuthenticatedAsSelf: the argument of its one call of next.
ensureAuthenticatedAsSelf(r, l) ==
  IF ~Truthy(l.user) THEN "UnauthorizedError"
  ELSE IF r.params = Undefined THEN "TypeError"
  ELSE IF l.user.username # r.params.username THEN "ForbiddenError"
  ELSE "ok"

\* `if (!res.locals.user)`
NoUserNever(l) == FALSE
NoUser(l) == ~Truthy(l.user)

\* ensureLoggedIn: the arguments of the calls of next it makes, in order.
\* "ok" is next() with no argument.  The delegated self check calls next,
\* and the `return next()` that follows the if / else calls it again.
ensureLoggedIn(r, l) ==
  IF NoUser(l) THEN <<"UnauthorizedError">>
  ELSE LET admin == isAdminActionRoute(r)
       IN IF admin.threw # "" THEN <<admin.threw>>
          ELSE IF Truthy(admin.value)
          THEN IF l.user = Undefined THEN <<"TypeError">>
               ELSE IF ~Truthy(l.user.isAdmin) THEN <<"ForbiddenError">>
               ELSE <<"ok">>
          ELSE <<ensureAuthenticatedAsSelf(r, l), "ok">>

\* The routes that name ensureLoggedIn.  param is the name of the route's
\* path parameter, "" when the path has none.
RouteOf(router, method, param) == [router |-> router, method |-> method, param |-> param]

JobRoutes ==
  {RouteOf("jobs", "POST", ""), RouteOf("jobs", "PATCH", "id"), RouteOf("jobs", "DELETE", "id")}

CompanyRoutes ==
  {RouteOf("companies", "POST", ""), RouteOf("companies", "PATCH", "handle"),
   RouteOf("companies", "DELETE", "handle")}

UserRoutes ==
  {RouteOf("users", "POST", ""), RouteOf("users", "GET", ""),
   RouteOf("users", "GET", "username"), RouteOf("users", "PATCH", "username"),
   RouteOf("users", "DELETE", "username")}

GuardedRoutes == JobRoutes \cup CompanyRoutes \cup UserRoutes

\* Where each router is mounted.
MountPath(router) ==
  CASE router = "jobs"      -> <<"/", "j", "o", "b", "s">>
    [] router = "companies" -> <<"/", "c", "o", "m", "p", "a", "n", "i", "e", "s">>
    [] router = "users"     -> <<"/", "u", "s", "e", "r", "s">>

\* The values a path parameter takes in the requests considered.
Segments(param) ==
  CASE param = ""         -> {<<>>}
    [] param = "id"       -> {<<"1">>}
    [] param = "handle"   -> {C1}
    [] param = "username" -> {U1, U2}

\* req.params of a request matched by a route: an object that has a
\* username only when the route's path has :username.
RouteParams(route, seg) ==
  [kind |-> "object",
   username |-> IF route.param = "username" THEN TextV(seg) ELSE Undefined,
   value |-> seg]

HttpRequest(route, seg, authorization) ==
  [via |-> "http", method |-> route.method, router |-> route.router,
   originalUrl |-> TextV(MountPath(route.router)
                         \o (IF seg = <<>> THEN <<>> ELSE <<"/">> \o seg)),
   params |-> RouteParams(route, seg), authorization |-> authorization]

\* The credentials a request carries: none, a user's token, an admin's
\* token, an admin token signed with another key, and a token sent under
\* another scheme.
Authorizations ==
  {Undefined,
   Header("Bearer ", Sign(User(U1, BoolV(FALSE)), SECRET_KEY)),
   Header("Bearer ", Sign(User(Admin, BoolV(TRUE)), SECRET_KEY)),
   Header("Bearer ", Sign(User(Admin, BoolV(TRUE)), "wrong")),
   Header("Basic ", Sign(User(Admin, BoolV(TRUE)), SECRET_KEY))}

\* The middleware's own tests call ensureLoggedIn directly: req is {} or
\* { originalUrl: "/example-admin-route" } (no method, no params) and
\* res.locals is prepared by the test.
ExampleAdminRoute ==
  <<"/", "e", "x", "a", "m", "p", "l", "e", "-", "a", "d", "m", "i", "n", "-",
    "r", "o", "u", "t", "e">>

DirectRequest(originalUrl) ==
  [via |-> "direct", method |-> "", router |-> "", originalUrl |-> originalUrl,
   params |-> Undefined, authorization |-> Undefined]

DirectLocals ==
  {[user |-> Undefined], [user |-> User(Test, Undefined)],
   [user |-> User(Test, BoolV(FALSE))], [user |-> User(Admin, BoolV(TRUE))]}

\* A request arrives; res.locals is {}.
Receive ==
  /\ stage = "idle"
  /\ \E route \in GuardedRoutes, a \in Authorizations :
       \E seg \in Segments(route.param) : req' = HttpRequest(route, seg, a)
  /\ locals' = NoLocals
  /\ stage' = "authenticateJWT"
  /\ UNCHANGED <<dbVars, repoVars, sqlVars, nextCalls, handled>>

DirectCall ==
  /\ stage = "idle"
  /\ \E u \in {Undefined, TextV(ExampleAdminRoute)} : req' = DirectRequest(u)
  /\ locals' \in DirectLocals
  /\ stage' = "ensureLoggedIn"
  /\ UNCHANGED <<dbVars, repoVars, sqlVars, nextCalls, handled>>

AuthenticateJWT ==
  /\ stage = "authenticateJWT"
  /\ locals' = authenticateJWT(req, locals)
  /\ stage' = "ensureLoggedIn"
  /\ UNCHANGED <<dbVars, repoVars, sqlVars, req, nextCalls, handled>>

EnsureLoggedIn ==
  /\ stage = "ensureLoggedIn"
  /\ nextCalls' = ensureLoggedIn(req, locals)
  /\ stage' = "dispatched"
  /\ UNCHANGED <<dbVars, repoVars, sqlVars, req, locals, handled>>

\* The route's handler is the next layer of the route: it runs when the
\* first call of next carried no error.  A next(err) skips it, and a later
\* call of next finds no layer left.
HandlerRuns == req.via = "http" /\ nextCalls # <<>> /\ nextCalls[1] = "ok"

JsonschemaUndefined == "ReferenceError: jsonschema is not defined"

\* The handlers of routes/jobs.js: POST and PATCH read `jsonschema`, which
\* the file never requires; DELETE runs Job.remove(req.params.id).  The
\* company and user handlers only leave their mark.
RouteHandler ==
  /\ stage = "dispatched" /\ HandlerRuns
  /\ IF req.router = "jobs" /\ req.method \in {"POST", "PATCH"}
     THEN handled' = JsonschemaUndefined /\ jobs' = jobs
     ELSE IF req.router = "jobs"
     THEN LET result == ExecSelect(jobs, StaticQuery("DELETE", "jobs", "id", <<IntV(1)>>))
          IN /\ jobs' = jobs \ result.rows
             /\ handled' = IF NoRow(result.rows) THEN NoJob ELSE "Job.remove"
     ELSE handled' = "handler" /\ jobs' = jobs
  /\ stage' = "responded"
  /\ UNCHANGED <<companies, nextId, repoVars, sqlVars, req, locals, nextCalls>>

\* The response is out (or the direct call returned); the next request starts
\* from a fresh req and res.
EndRequest ==
  /\ stage = "responded" \/ (stage = "dispatched" /\ ~HandlerRuns)
  /\ stage' = "idle" /\ req' = NoReq /\ locals' = NoLocals
  /\ nextCalls' = <<>> /\ handled' = ""
  /\ UNCHANGED <<dbVars, repoVars, sqlVars>>

\* The tables hold one company and one of its jobs.
InitAuth ==
  /\ companies = {[handle |-> TextV(C1), name |-> TextV(Net), description |-> TextV(Desc),
                   numEmployees |-> IntV(1), logoUrl |-> TextV(Logo)]}
  /\ jobs = {[id |-> 1, title |-> TextV(Dev), salary |-> IntV(1), equity |-> IntV(0),
              companyHandle |-> TextV(C1)]}
  /\ nextId = 2
  /\ InitRepo /\ InitSqlIdle /\ InitHttpIdle

NextAuth ==
  \/ Receive \/ DirectCall \/ AuthenticateJWT \/ EnsureLoggedIn
  \/ RouteHandler \/ EndRequest

SpecAuth == InitAuth /\ [][NextAuth]_vars

-----------------------------------------------------------------------------
(* Properties of the clause builders (checked under SpecSql).              *)

IsOn(x) == x.on

\* The criteria Company.findAll takes as present, in the order it tests
\* them, each with the value it binds.
CompanyCriteria(f) ==
  SelectSeq(<<[on |-> Truthy(f.name), v |-> LikePattern(f.name)],
              [on |-> Truthy(f.minEmployees), v |-> f.minEmployees],
              [on |-> Truthy(f.maxEmployees), v |-> f.maxEmployees]>>, IsOn)

\* The criteria Job.findAll takes as present, in the order it tests them.
JobCriteria(f) ==
  SelectSeq(<<[on |-> Truthy(f.title), v |-> LikePattern(f.title)],
              [on |-> f.minSalary # Undefined, v |-> f.minSalary],
              [on |-> f.hasEquity # Undefined, v |-> f.hasEquity]>>, IsOn)

FindAllBuilt(fn) == input.fn = fn /\ output # NoOutput

\* The parameter numbers the predicates refer to, in order of appearance.
ParamsOf(preds) ==
  LET HasParam(pred) == PlaceholderOf(pred.rhs, Len(preds) + 1) # 0
      with == SelectSeq(preds, HasParam)
  IN [i \in 1..Len(with) |-> PlaceholderOf(with[i].rhs, Len(preds) + 1)]

\* C1: in the query Company.findAll builds, the placeholders are $1..$n in
\* order of appearance, n being the number of bind values, and the i-th bind
\* value is the value of the i-th present criterion.
C1_PlaceholdersInSequence ==
  FindAllBuilt("Company.findAll") =>
    LET preds    == output.query.text.preds
        values   == output.query.values
        criteria == CompanyCriteria(input.filters)
    IN /\ Len(values) = Len(criteria)
       /\ ParamsOf(preds) = [i \in 1..Len(values) |-> i]
       /\ \A i \in 1..Len(values) : values[i] = criteria[i].v

\* C2: in the query Job.findAll builds, hasEquity is the literal comparison
\* equity > 0 and adds no bind value: there are as many bind values as
\* placeholders in the text.
C2_EquityBindsNothing ==
  FindAllBuilt("Job.findAll") =>
    LET preds  == output.query.text.preds
        values == output.query.values
    IN /\ \A i \in DOMAIN preds :
            preds[i].lhs = "equity" => preds[i].op = ">" /\ preds[i].rhs = "0"
       /\ (input.filters.hasEquity # Undefined =>
             \E i \in DOMAIN preds : preds[i].lhs = "equity")
       /\ Len(values) = Len(ParamsOf(preds))

\* C3: whichever criteria are present, the query of Company.findAll and of
\* Job.findAll has one predicate per present criterion, the first one
\* introduced by WHERE and every later one by AND; with no criterion present
\* there is no WHERE.  (A criterion given as 0 or as the empty text is one
\* Company.findAll takes as absent, and so is an empty title.)
C3_OneWhereThenAnd ==
  \A fn \in {"Company.findAll", "Job.findAll"} :
    FindAllBuilt(fn) =>
      LET preds    == output.query.text.preds
          criteria == IF fn = "Company.findAll" THEN CompanyCriteria(input.filters)
                      ELSE JobCriteria(input.filters)
      IN /\ Len(preds) = Len(criteria)
         /\ \A i \in DOMAIN preds : preds[i].kw = (IF i = 1 THEN "WHERE" ELSE "AND")
         /\ Cardinality({i \in DOMAIN preds : preds[i].kw = "WHERE"})
              = (IF Len(criteria) = 0 THEN 0 ELSE 1)

\* Witness of C3: name absent, minEmployees and maxEmployees present.
C3_Witness ==
  /\ FindAllBuilt("Company.findAll")
  /\ input.filters.name = Undefined
  /\ Truthy(input.filters.minEmployees) /\ Truthy(input.filters.maxEmployees)
  /\ Len(output.query.text.preds) = 2

\* The column the claim names for a key: its translation when the table
\* has one, the key itself otherwise.
ClaimedColumn(table, key) == IF key \in DOMAIN table THEN table[key] ELSE key

\* C4: for a payload of k >= 1 entries sqlForPartialUpdate gives k
\* assignments joined by ", ", the i-th being "<column_i>"=$i, and the k
\* values in the same order; Company.update and Job.update bind the record key
\* to $(k+1), as the last bind value.
C4_PartialUpdate ==
  (input.fn \in {"Company.update", "Job.update", "sqlForPartialUpdate"}
     /\ output # NoOutput /\ Len(input.data) >= 1) =>
    LET k       == Len(input.data)
        setCols == IF input.fn = "sqlForPartialUpdate" THEN output.setCols
                   ELSE output.text.setCols
    IN /\ output.threw = ""
       /\ Len(setCols) = 2 * k - 1
       /\ \A i \in 1..k :
            /\ setCols[2 * i - 1] =
                 "\"" \o ClaimedColumn(input.jsToSql, input.data[i].key) \o "\"=$"
                   \o ToString(i)
            /\ i < k => setCols[2 * i] = ", "
            /\ output.values[i] = input.data[i].val
       /\ input.fn = "sqlForPartialUpdate" => Len(output.values) = k
       /\ input.fn # "sqlForPartialUpdate" =>
            /\ Len(output.values) = k + 1
            /\ output.values[k + 1] = input.key
            /\ output.text.where.rhs = "$" \o ToString(k + 1)
            /\ output.text.where.lhs = (IF input.fn = "Company.update" THEN "handle" ELSE "id")

\* Witness of C4: Company.update with two entries, the first one translated.
C4_Witness ==
  /\ input.fn = "Company.update" /\ output # NoOutput
  /\ Len(input.data) = 2 /\ input.data[1].key = "numEmployees"
  /\ output.threw = "" /\ Len(output.values) = 3

-----------------------------------------------------------------------------
(* Properties of the repository calls (checked under Spec).                *)

CompanyOps == {"Company.create", "Company.findAll", "Company.get", "Company.update",
               "Company.remove"}
UpdateOps  == {"Company.update", "Job.update"}
KeyedOps   == {"Company.get", "Company.update", "Company.remove",
               "Job.get", "Job.update", "Job.remove"}

TablesAsBefore == companies = pre.companies /\ jobs = pre.jobs

\* C5: update with an empty payload fails with BadRequestError "No data"
\* before any query is handed to the executor, and the tables are unchanged.
C5_EmptyPayloadRejected ==
  \A p \in Procs :
    (call[p].op \in UpdateOps /\ call[p].data = <<>>) =>
      /\ pc[p] = "done"
      /\ ret[p].threw = NoDataError
      /\ sent[p] = <<>>
      /\ TablesAsBefore

\* Witness of C5: Job.update returned from an empty payload.
C5_Witness ==
  /\ pc[1] = "done" /\ call[1].op = "Job.update" /\ call[1].data = <<>>
  /\ ret[1].threw = NoDataError

JobKey(j) == <<j.title, j.companyHandle>>

\* The natural key of the record a create call is given was stored when
\* the call began.
KeyExisted(p) ==
  IF call[p].op = "Company.create"
  THEN \E r \in pre.companies : r.handle = call[p].data.handle
  ELSE \E j \in pre.jobs : JobKey(j) = JobKey(call[p].data)

\* create with a stored natural key: Conflict, no INSERT issued, tables unchanged.
CreateConflict ==
  \A p \in Procs :
    (call[p].op \in {"Company.create", "Job.create"} /\ KeyExisted(p)) =>
      /\ pc[p] \in {"Company.create:check", "Job.create:check", "done"}
      /\ Len(sent[p]) = 1
      /\ TablesAsBefore
      /\ pc[p] = "done" =>
           ret[p].threw = (IF call[p].op = "Company.create" THEN DuplicateCompany
                           ELSE DuplicateJob)

UniqueHandles == \A a, b \in companies : a.handle = b.handle => a = b
UniqueJobKeys == \A a, b \in jobs : JobKey(a) = JobKey(b) => a = b

\* The job a create call inserted shares its key with no other stored job.
CreatedJobKeyFresh ==
  \A p \in Procs :
    (pc[p] = "done" /\ call[p].op = "Job.create" /\ ret[p].threw = "") =>
      \A j \in jobs : JobKey(j) = JobKey(ret[p].value) => j = ret[p].value

\* C6 as claimed: create with a stored natural key fails with Conflict and
\* inserts nothing, and no two stored records ever share a natural key.
C6_Claimed == CreateConflict /\ UniqueHandles /\ UniqueJobKeys

\* C6: create with a stored natural key fails with Conflict and inserts
\* nothing; no two stored companies share a handle, and a job that create
\* inserted shares its title and companyHandle with no other stored job.
C6_CreateConflict == CreateConflict /\ UniqueHandles /\ CreatedJobKeyFresh

\* Witness of C6: Job.create refused a title and company that were stored.
C6_Witness ==
  /\ pc[1] = "done" /\ call[1].op = "Job.create" /\ KeyExisted(1)
  /\ ret[1].threw = DuplicateJob

\* The key a get / update / remove call is given matched no row when the
\* call began.
KeyMissing(p) ==
  IF call[p].op \in CompanyOps
  THEN \A r \in pre.companies : r.handle # call[p].key
  ELSE \A j \in pre.jobs : IntV(j.id) # call[p].key

\* C7: get, update with a payload, and remove on a key that matches no
\* stored record fail with NotFound and leave every stored record as it was.
C7_MissingKeyNotFound ==
  \A p \in Procs :
    (/\ pc[p] = "done" /\ call[p].op \in KeyedOps
     /\ (call[p].op \in UpdateOps => call[p].data # <<>>)
     /\ KeyMissing(p)) =>
      /\ ret[p].threw = (IF call[p].op \in CompanyOps THEN NoCompany ELSE NoJob)
      /\ TablesAsBefore

\* Witness of C7: Job.update of a title on an id that is not stored, while
\* another job is.
C7_Witness ==
  /\ pc[1] = "done" /\ call[1].op = "Job.update" /\ call[1].data # <<>>
  /\ KeyMissing(1) /\ jobs # {} /\ ret[1].threw = NoJob

-----------------------------------------------------------------------------
(* Properties of the HTTP layer (checked under SpecAuth).                  *)

\* ensureLoggedIn has run on the request.
Decided == stage \in {"dispatched", "responded"}

\* The decision is the first call of next: that call selects the handler
\* or the error response.
Decision == nextCalls[1]

HasPrincipal == locals.user # Undefined

DbAsSeeded ==
  /\ \A c \in companies : c.handle = TextV(C1)
  /\ \A j \in jobs : j.id = 1
  /\ Cardinality(companies) = 1 /\ Cardinality(jobs) = 1 /\ nextId = 2

\* C8: a request with no Principal (no credential, or one that does not
\* verify) gets UnauthorizedError from ensureLoggedIn as its only call of
\* next, whatever the method and path; the handler does not run and the
\* tables stay as they were.
C8_NoPrincipalUnauthenticated ==
  (Decided /\ ~HasPrincipal) =>
    /\ nextCalls = <<"UnauthorizedError">>
    /\ handled = ""
    /\ DbAsSeeded

\* Witness of C8: DELETE /jobs/1 with an admin token signed with another
\* key was refused.
C8_Witness ==
  /\ Decided /\ ~HasPrincipal /\ req.via = "http"
  /\ req.router = "jobs" /\ req.method = "DELETE"
  /\ req.authorization # Undefined
  /\ nextCalls = <<"UnauthorizedError">>

\* The privileged-only actions: create, update, delete of a company;
\* create, list, read, update, delete of a user.
PrivilegedOnly == req.via = "http" /\ req.router \in {"companies", "users"}

\* C9: on a privileged-only action with a Principal the decision follows
\* the privileged flag: isAdmin false is refused with ForbiddenError,
\* isAdmin true is let through.
C9_PrivilegedFlagDecides ==
  (Decided /\ HasPrincipal /\ PrivilegedOnly) =>
    Decision = (IF Truthy(locals.user.isAdmin) THEN "ok" ELSE "ForbiddenError")

UsernameMatches == req.params.username = locals.user.username

\* C10: on any other action with a Principal the request is let through
\* exactly when the path's username segment is the Principal's username;
\* otherwise, and when the path has no username segment, it is refused
\* with ForbiddenError and the handler does not run.
C10_SelfOnlyOtherwise ==
  (Decided /\ HasPrincipal /\ req.via = "http" /\ ~PrivilegedOnly) =>
    /\ Decision = "ok" <=> UsernameMatches
    /\ ~UsernameMatches => (Decision = "ForbiddenError" /\ handled = "")

\* The repository operations the handlers of the job routes are there to run.
JobRouteOperations == {"Job.create", "Job.update", "Job.remove"}

\* C11: on the job routes login is the only requirement: a request with a
\* valid credential is let through by ensureLoggedIn with no error, and
\* the handler performs the repository operation.
C11_JobRoutesLoginOnly ==
  (Decided /\ HasPrincipal /\ req.via = "http" /\ req.router = "jobs") =>
    /\ nextCalls = <<"ok">>
    /\ stage = "responded" => handled \in JobRouteOperations

-----------------------------------------------------------------------------
(* Properties of what findAll and update return (checked under Spec).      *)

\* The rows of a returned sequence.
Returned(p) == {ret[p].value[i] : i \in DOMAIN ret[p].value}

InRange(c, f) ==
  /\ f.minEmployees # Undefined => f.minEmployees.n <= c.numEmployees.n
  /\ f.maxEmployees # Undefined => c.numEmployees.n <= f.maxEmployees.n

\* C12: Company.findAll with minEmployees and/or maxEmployees and no name
\* returns, without error, exactly the stored companies whose employee
\* count lies within the bounds given, both inclusive.
C12_EmployeeRange ==
  \A p \in Procs :
    (/\ pc[p] = "done" /\ call[p].op = "Company.findAll"
     /\ call[p].filters.name = Undefined
     /\ (call[p].filters.minEmployees # Undefined \/ call[p].filters.maxEmployees # Undefined)) =>
      /\ ret[p].threw = ""
      /\ Returned(p) = {c \in pre.companies : InRange(c, call[p].filters)}


\* t contains sub, letter case apart.
Contains(t, sub) ==
  \E i \in 0..(Len(t) - Len(sub)) : \A j \in 1..Len(sub) : Lower(t[i + j]) = Lower(sub[j])

\* The returned sequence is ascending on a field.
Ascending(rows, field) ==
  \A i, j \in DOMAIN rows : i < j => TextLeq(rows[i][field].s, rows[j][field].s)

\* C13: findAll with a name (Company) or title (Job) criterion, and no
\* other, returns without error exactly the stored records whose name or
\* title contains the criterion, letter case apart, in ascending order of
\* name or title.
C13_SubstringMatch ==
  \A p \in Procs :
    /\ (/\ pc[p] = "done" /\ call[p].op = "Company.findAll"
        /\ call[p].filters.name # Undefined
        /\ call[p].filters.minEmployees = Undefined
        /\ call[p].filters.maxEmployees = Undefined) =>
         /\ ret[p].threw = ""
         /\ Returned(p) = {c \in pre.companies : Contains(c.name.s, call[p].filters.name.s)}
         /\ Ascending(ret[p].value, "name")
    /\ (/\ pc[p] = "done" /\ call[p].op = "Job.findAll"
        /\ call[p].filters.title # Undefined
        /\ call[p].filters.minSalary = Undefined
        /\ call[p].filters.hasEquity = Undefined) =>
         /\ ret[p].threw = ""
         /\ Returned(p) = {j \in pre.jobs : Contains(j.title.s, call[p].filters.title.s)}
         /\ Ascending(ret[p].value, "title")


\* The stored record an update call's key named when the call began.
Target(p) ==
  IF call[p].op = "Company.update"
  THEN CHOOSE c \in pre.companies : c.handle = call[p].key
  ELSE CHOOSE j \in pre.jobs : IntV(j.id) = call[p].key

\* The record with the payload's fields set and every other field kept.
Patched(old, data) ==
  [f \in DOMAIN old |->
     IF \E i \in DOMAIN data : data[i].key = f
     THEN (CHOOSE e \in {data[i] : i \in DOMAIN data} : e.key = f).val
     ELSE old[f]]

\* C14: update with a payload on a stored record returns and stores that
\* record with exactly the payload's fields set to the new values; its
\* other fields, and every other stored record, are as before.
C14_UpdateFrame ==
  \A p \in Procs :
    (/\ pc[p] = "done" /\ call[p].op \in UpdateOps
     /\ call[p].data # <<>> /\ ~KeyMissing(p)) =>
      /\ ret[p].threw = ""
      /\ ret[p].value = Patched(Target(p), call[p].data)
      /\ IF call[p].op = "Company.update"
         THEN /\ companies = (pre.companies \ {Target(p)}) \cup {ret[p].value}
              /\ jobs = pre.jobs
         ELSE /\ jobs = (pre.jobs \ {Target(p)}) \cup {ret[p].value}
              /\ companies = pre.companies

\* Witness of C14: Job.update changed the title of one of two stored jobs.
C14_Witness ==
  /\ pc[1] = "done" /\ call[1].op = "Job.update" /\ ~KeyMissing(1)
  /\ Len(call[1].data) = 1 /\ call[1].data[1].key = "title"
  /\ Cardinality(pre.jobs) = 2
  /\ ret[1].threw = "" /\ ret[1].value.title # Target(1).title
  /\ ret[1].value \in jobs

-----------------------------------------------------------------------------
(* The continuation (checked under SpecAuth).                              *)

\* C15: once ensureLoggedIn has run on a request, next has been called
\* exactly once, with an error or with none, on every branch.
C15_NextExactlyOnce == Decided => Len(nextCalls) = 1

-----------------------------------------------------------------------------
(* Overlapping creates (checked under SpecRace).                           *)

\* The call found no duplicate and issued its INSERT.
IssuedInsert(p) == Len(sent[p]) = 2

SameNaturalKey(p, q) ==
  /\ call[p].op = call[q].op
  /\ IF call[p].op = "Company.create"
     THEN call[p].data.handle = call[q].data.handle
     ELSE JobKey(call[p].data) = JobKey(call[q].data)

Stored(row) == row \in companies \/ row \in jobs

\* C16: create is a check followed by an INSERT with nothing between them
\* that excludes another call: when two overlapping create calls with the
\* same natural key have both passed their duplicate check, both INSERTs
\* take effect, neither call fails, and the two rows stored share the key.
C16_CheckThenAct ==
  \A p, q \in Procs :
    (/\ p # q /\ pc[p] = "done" /\ pc[q] = "done"
     /\ call[p].op \in {"Company.create", "Job.create"} /\ SameNaturalKey(p, q)
     /\ IssuedInsert(p) /\ IssuedInsert(q)) =>
      /\ ret[p].threw = "" /\ ret[q].threw = ""
      /\ Stored(ret[p].value) /\ Stored(ret[q].value)
      /\ ret[p].value # ret[q].value => ~(UniqueHandles /\ UniqueJobKeys)

\* Witness of C16: two Job.create calls with the same title and company
\* both found no duplicate, both returned a job, and both jobs are stored.
C16_Witness ==
  /\ pc[1] = "done" /\ pc[2] = "done"
  /\ call[1].op = "Job.create" /\ SameNaturalKey(1, 2)
  /\ IssuedInsert(1) /\ IssuedInsert(2)
  /\ ret[1].threw = "" /\ ret[2].threw = ""
  /\ ret[1].value # ret[2].value
  /\ {ret[1].value, ret[2].value} \subseteq jobs
  /\ ~UniqueJobKeys

-----------------------------------------------------------------------------
(* The hasEquity criterion (checked under SpecSql).                        *)

\* C17: Job.findAll adds the equity > 0 predicate exactly when hasEquity
\* is true; with hasEquity false the query is the one built with hasEquity
\* absent, whatever the other criteria.
C17_EquityOnlyWhenTrue ==
  FindAllBuilt("Job.findAll") =>
    LET f == input.filters
        preds == output.query.text.preds
    IN /\ (\E i \in DOMAIN preds : preds[i].lhs = "equity") <=> f.hasEquity = BoolV(TRUE)
       /\ f.hasEquity = BoolV(FALSE) =>
            output.query = JobFindAllQuery([f EXCEPT !.hasEquity = Undefined])

====
